---- MODULE Spec2Model ----
(***************************************************************************)
(* A model of the mail-transfer server of parse.py: the token scanner, the *)
(* recursive-descent command parser, the command registry and the session  *)
(* driver process_request with its delivery to the per-domain mailboxes,   *)
(* and of the client of sender.py: its reply validator match_code and the  *)
(* command sequence of process_mails.                                      *)
(*                                                                         *)
(* A line of input is a sequence of one-character strings.  A Python       *)
(* exception raised by a parser routine is the field err of its result     *)
(* (0: no exception, else the reply code of the exception's message).      *)
(***************************************************************************)
EXTENDS Integers, Sequences, FiniteSets, TLC

\* ------------------------------------------------------------------------
\* Constants of parse.py
\* ------------------------------------------------------------------------

CHAR == 1
SPEC == 2
SPACE == 3
NEWLINE == 4
EOF == -1
UNREC == -2

\* The reply codes that start the three error messages.
COMMAND_UNREC == 500
PARAM_ERROR == 501
OUT_OF_ORDER_ERROR == 503

OK == 250
ENTER_DATA == 354
GREETING == 220
QUIT == 221

\* ------------------------------------------------------------------------
\* Characters
\* ------------------------------------------------------------------------

\* The spelling of the token returned at the end of the stream ("\0").
NUL == "NUL"

\* A character outside 7-bit ASCII (a letter, as str.isalpha sees it).
EACUTE == "U+00E9"

\* ARABIC-INDIC DIGIT TWO: a digit to str.isdigit, and to int, with value 2.
ARABIC_TWO == "U+0662"

\* SUPERSCRIPT TWO: a digit to str.isdigit, which int does not convert.
SUPER_TWO == "U+00B2"

AsciiLetters ==
  {"a","b","c","d","e","f","g","h","i","j","k","l","m",
   "n","o","p","q","r","s","t","u","v","w","x","y","z",
   "A","B","C","D","E","F","G","H","I","J","K","L","M",
   "N","O","P","Q","R","S","T","U","V","W","X","Y","Z"}

Digits == {"0","1","2","3","4","5","6","7","8","9"}

is_ascii(c) == c \notin {EACUTE, ARABIC_TWO, SUPER_TWO}

isalpha(c) == c \in AsciiLetters \/ c = EACUTE

isdigit(c) == c \in Digits \cup {ARABIC_TWO, SUPER_TWO}

\* What str.strip and str.rstrip remove.
PyWhitespace == {" ", "\t", "\n", "\r", "\f"}

RECURSIVE lstrip(_)
lstrip(s) ==
  IF s # <<>> /\ Head(s) \in PyWhitespace THEN lstrip(Tail(s)) ELSE s

RECURSIVE rstrip(_)
rstrip(s) ==
  IF s # <<>> /\ s[Len(s)] \in PyWhitespace
  THEN rstrip(SubSeq(s, 1, Len(s) - 1))
  ELSE s

strip(s) == rstrip(lstrip(s))

\* ------------------------------------------------------------------------
\* TokenScanner: the scanner over line s whose lookahead token is the
\* character at position p
\* ------------------------------------------------------------------------

SPECIAL == {"<", ">", "(", ")", "[", "]", "\\", ".", ",", ";", ":", "@", "\""}

read_token(s, p) ==
  IF p > Len(s) THEN [type |-> EOF, spelling |-> NUL]
  ELSE IF s[p] = "\t" \/ s[p] = " " THEN [type |-> SPACE, spelling |-> s[p]]
  ELSE IF s[p] = "\n" THEN [type |-> NEWLINE, spelling |-> s[p]]
  ELSE IF s[p] \in SPECIAL THEN [type |-> SPEC, spelling |-> s[p]]
  ELSE IF is_ascii(s[p]) THEN [type |-> CHAR, spelling |-> s[p]]
  ELSE [type |-> UNREC, spelling |-> s[p]]

\* token_type 0 and spelling "" stand for the arguments left out.
accept(s, p, token_type, spelling) ==
  /\ ~(token_type # 0 /\ token_type # read_token(s, p).type)
  /\ ~(spelling # "" /\ spelling # read_token(s, p).spelling)

\* ------------------------------------------------------------------------
\* Results of the parser routines
\* ------------------------------------------------------------------------

Return(p, v) == [err |-> 0, pos |-> p, val |-> v]

Raise(e) == [err |-> e, pos |-> 0, val |-> <<>>]

\* r, then K on its result; an exception raised by r propagates.
Then(r, K(_)) == IF r.err # 0 THEN r ELSE K(r)

MailBox(user, domain) == [user |-> user, domain |-> domain]

\* MailBoxStr with the two parts the other way round.
MailBoxStr_Swapped(box) == box.domain \o <<"@">> \o box.user

\* MailBox.__str__
MailBoxStr(box) == box.user \o <<"@">> \o box.domain

\* ------------------------------------------------------------------------
\* Grammar parser
\* ------------------------------------------------------------------------

\* The position after the literal, or 0 when a character does not match.
RECURSIVE accept_literal_str(_, _, _)
accept_literal_str(s, p, string) ==
  IF string = <<>> THEN p
  ELSE IF ~accept(s, p, 0, Head(string)) THEN 0
  ELSE accept_literal_str(s, p + 1, Tail(string))

RECURSIVE SkipSpaces(_, _)
SkipSpaces(s, p) ==
  IF read_token(s, p).type = SPACE THEN SkipSpaces(s, p + 1) ELSE p

parse_whitespace(s, p) ==
  IF ~accept(s, p, SPACE, "") THEN Raise(PARAM_ERROR)
  ELSE Return(SkipSpaces(s, p + 1), <<>>)

parse_nullspace(s, p) ==
  IF read_token(s, p).type = SPACE THEN parse_whitespace(s, p)
  ELSE Return(p, <<>>)

RECURSIVE CharRun(_, _, _)
CharRun(s, p, result) ==
  IF read_token(s, p).type = CHAR
  THEN CharRun(s, p + 1, Append(result, s[p]))
  ELSE Return(p, result)

parse_string(s, p) ==
  IF ~accept(s, p, CHAR, "") THEN Raise(PARAM_ERROR)
  ELSE CharRun(s, p + 1, <<s[p]>>)

\* The position after the letter, or 0 when the lookahead is no letter.
accept_letter(s, p) ==
  IF read_token(s, p).type = CHAR /\ isalpha(read_token(s, p).spelling)
  THEN p + 1
  ELSE 0

\* The lookahead's spelling is a letter or a digit.
IsLetterDigit(s, p) ==
  isalpha(read_token(s, p).spelling) \/ isdigit(read_token(s, p).spelling)

parse_letter_digit(s, p) ==
  IF read_token(s, p).type # CHAR THEN Raise(PARAM_ERROR)
  ELSE IF IsLetterDigit(s, p) THEN Return(p + 1, <<s[p]>>)
  ELSE Raise(PARAM_ERROR)

\* The while loop of parse_letter_digit_string.
RECURSIVE LetterDigitLoop(_, _, _)
LetterDigitLoop(s, p, result) ==
  IF IsLetterDigit(s, p)
  THEN Then(parse_letter_digit(s, p),
            LAMBDA r : LetterDigitLoop(s, r.pos, result \o r.val))
  ELSE Return(p, result)

parse_letter_digit_string(s, p) ==
  Then(parse_letter_digit(s, p),
       LAMBDA first :
         IF read_token(s, first.pos).type # CHAR THEN first
         ELSE LetterDigitLoop(s, first.pos, first.val))

\* parse_element after accept_letter has taken the letter before q.
ElementRest(s, q, letter) ==
  IF read_token(s, q).type # CHAR THEN Return(q, letter)
  ELSE IF IsLetterDigit(s, q)
  THEN Then(parse_letter_digit_string(s, q),
            LAMBDA r : Return(r.pos, letter \o r.val))
  ELSE Return(q, letter)

parse_element(s, p) ==
  IF accept_letter(s, p) = 0 THEN Raise(PARAM_ERROR)
  ELSE ElementRest(s, p + 1, <<s[p]>>)

RECURSIVE parse_domain(_, _)
parse_domain(s, p) ==
  Then(parse_element(s, p),
       LAMBDA e :
         IF read_token(s, e.pos).type = SPEC /\ read_token(s, e.pos).spelling = "."
         THEN Then(parse_domain(s, e.pos + 1),
                   LAMBDA rest : Return(rest.pos, e.val \o <<".">> \o rest.val))
         ELSE e)

parse_mailbox(s, p) ==
  Then(parse_string(s, p),
       LAMBDA user :
         IF ~accept(s, user.pos, SPEC, "@") THEN Raise(PARAM_ERROR)
         ELSE Then(parse_domain(s, user.pos + 1),
                   LAMBDA domain :
                     Return(domain.pos, MailBox(user.val, domain.val))))

parse_path(s, p) ==
  IF ~accept(s, p, SPEC, "<") THEN Raise(PARAM_ERROR)
  ELSE Then(parse_mailbox(s, p + 1),
            LAMBDA mail_box :
              IF ~accept(s, mail_box.pos, SPEC, ">") THEN Raise(PARAM_ERROR)
              ELSE Return(mail_box.pos + 1, mail_box.val))

\* nullspace NEWLINE at position p, after a command whose value is v.
EndOfCommand(s, p, v) ==
  Then(parse_nullspace(s, p),
       LAMBDA ns :
         IF ~accept(s, ns.pos, NEWLINE, "") THEN Raise(PARAM_ERROR)
         ELSE Return(ns.pos + 1, v))

\* The part of parse_mail_from_cmd and parse_rcpt_to after the keyword:
\* nullspace path nullspace NEWLINE.
PathArgument(s, p) ==
  Then(parse_nullspace(s, p),
       LAMBDA ns :
         Then(parse_path(s, ns.pos),
              LAMBDA path : EndOfCommand(s, path.pos, path.val)))

\* The try block of parse_mail_from_cmd and parse_rcpt_to, in which every
\* ParseException becomes UnrecognizedCommandException: the position after
\* first, whitespace and second, or 0.
AfterSpace(s, ws, second) ==
  IF ws.err # 0 THEN 0 ELSE accept_literal_str(s, ws.pos, second)

AfterFirst(s, q, second) ==
  IF q = 0 THEN 0 ELSE AfterSpace(s, parse_whitespace(s, q), second)

Keyword(s, p, first, second) ==
  AfterFirst(s, accept_literal_str(s, p, first), second)

\* AfterKeyword with the try block drawn around the whole routine: a
\* failure in the parameters is reported as an unrecognized command too.
AfterKeyword_TryAroundAll(s, q) ==
  IF q = 0 THEN Raise(COMMAND_UNREC)
  ELSE IF PathArgument(s, q).err # 0 THEN Raise(COMMAND_UNREC)
  ELSE PathArgument(s, q)

\* A command whose keyword ended before q (0: it did not match).
AfterKeyword(s, q) ==
  IF q = 0 THEN Raise(COMMAND_UNREC) ELSE PathArgument(s, q)

parse_mail_from_cmd(s, p) ==
  AfterKeyword(s, Keyword(s, p, <<"M","A","I","L">>, <<"F","R","O","M",":">>))

parse_rcpt_to(s, p) ==
  AfterKeyword(s, Keyword(s, p, <<"R","C","P","T">>, <<"T","O",":">>))

DataRest(s, q) ==
  IF q = 0 THEN Raise(COMMAND_UNREC) ELSE EndOfCommand(s, q, <<>>)

parse_data_cmd(s, p) ==
  DataRest(s, accept_literal_str(s, p, <<"D","A","T","A">>))

HeloRest(s, q) ==
  IF q = 0 THEN Raise(COMMAND_UNREC)
  ELSE Then(parse_whitespace(s, q),
            LAMBDA ws :
              Then(parse_domain(s, ws.pos),
                   LAMBDA domain : EndOfCommand(s, domain.pos, domain.val)))

parse_helo_cmd(s, p) ==
  HeloRest(s, accept_literal_str(s, p, <<"H","E","L","O">>))

\* ------------------------------------------------------------------------
\* Command registry and try_parse
\* ------------------------------------------------------------------------

\* PARSERS: the routine registered for a line's first character.
PARSERS ==
  [c \in {"M", "R", "D", "H"} |->
     CASE c = "M" -> "parse_mail_from_cmd"
       [] c = "R" -> "parse_rcpt_to"
       [] c = "D" -> "parse_data_cmd"
       [] c = "H" -> "parse_helo_cmd"]

\* The call f(tok_scanner) of try_parse, on a fresh scanner over the line.
CallParser(f, s) ==
  CASE f = "parse_mail_from_cmd" -> parse_mail_from_cmd(s, 1)
    [] f = "parse_rcpt_to" -> parse_rcpt_to(s, 1)
    [] f = "parse_data_cmd" -> parse_data_cmd(s, 1)
    [] f = "parse_helo_cmd" -> parse_helo_cmd(s, 1)

Parsed(f, v) == [err |-> 0, f |-> f, parsed |-> v]

ParseException(e) == [err |-> e, f |-> "", parsed |-> <<>>]

\* TryCall with a parameter error raised again whatever the routine.
TryCall_ParamErrorFirst(f, r, expected) ==
  IF r.err = 0
  THEN IF f \notin expected THEN ParseException(OUT_OF_ORDER_ERROR)
       ELSE Parsed(f, r.val)
  ELSE ParseException(r.err)

\* TryCall with every exception of a routine that is not expected turned
\* into the out-of-order one.
TryCall_LegalityFirst(f, r, expected) ==
  IF f \notin expected THEN ParseException(OUT_OF_ORDER_ERROR)
  ELSE IF r.err = 0 THEN Parsed(f, r.val)
  ELSE ParseException(r.err)

\* The try statement of try_parse around the call r of routine f.
TryCall(f, r, expected) ==
  IF r.err = 0
  THEN IF f \notin expected THEN ParseException(OUT_OF_ORDER_ERROR)
       ELSE Parsed(f, r.val)
  ELSE IF r.err = PARAM_ERROR
  THEN IF f \notin expected THEN ParseException(OUT_OF_ORDER_ERROR)
       ELSE ParseException(PARAM_ERROR)
  ELSE ParseException(r.err)

\* The routine registered for the line's first character.
Dispatch(line, f, expected) == TryCall(f, CallParser(f, line), expected)

\* try_parse with a first character that has no routine reported as a
\* command out of order.
try_parse_UnregisteredOutOfOrder(line, expected) ==
  IF strip(line) = <<>> THEN ParseException(COMMAND_UNREC)
  ELSE IF read_token(line, 1).spelling \notin DOMAIN PARSERS
  THEN ParseException(OUT_OF_ORDER_ERROR)
  ELSE Dispatch(line, PARSERS[read_token(line, 1).spelling], expected)

\* try_parse(line, expected, PARSERS): the routine and its value, or the
\* exception that leaves try_parse.
try_parse(line, expected) ==
  IF strip(line) = <<>> THEN ParseException(COMMAND_UNREC)
  ELSE IF read_token(line, 1).spelling \notin DOMAIN PARSERS
  THEN ParseException(COMMAND_UNREC)
  ELSE Dispatch(line, PARSERS[read_token(line, 1).spelling], expected)

\* ------------------------------------------------------------------------
\* The lines a peer sends (the bounded input)
\* ------------------------------------------------------------------------

\* Well-formed HELO lines.
HeloLines ==
  { <<"H","E","L","O"," ","x",".","o","r","g","\n">>,
    <<"H","E","L","O"," "," ","a","1"," ","\n">> }

\* Well-formed MAIL FROM lines, of two senders.
MailLines ==
  { <<"M","A","I","L"," ","F","R","O","M",":","<","a","@","b",".","c","o","m",">","\n">>,
    <<"M","A","I","L"," ","\t","F","R","O","M",":"," ","<","z","9","@","b",".","c","o","m",">"," ","\n">> }

\* Well-formed RCPT TO lines: two recipients of one domain, one of another.
RcptLines ==
  { <<"R","C","P","T"," ","T","O",":","<","c","@","d",".","c","o","m",">","\n">>,
    <<"R","C","P","T"," ","T","O",":"," ","<","e","@","d",".","c","o","m",">","\n">>,
    <<"R","C","P","T"," ","T","O",":","<","c","@","e",".","f",">","\n">> }

\* Well-formed DATA lines.
DataLines ==
  { <<"D","A","T","A","\n">>,
    <<"D","A","T","A"," ","\t","\n">> }

\* Lines that are QUIT once stripped; the last one ends the stream unterminated.
QuitLines ==
  { <<"Q","U","I","T","\n">>,
    <<" ","Q","U","I","T"," ","\n">>,
    <<"Q","U","I","T">> }

\* Lines whose keyword is matched and whose parameters are malformed.
BadParamLines ==
  { <<"M","A","I","L"," ","F","R","O","M",":","<","a"," ","b","@","c",">","\n">>,
    <<"M","A","I","L"," ","F","R","O","M",":","<","a","@","b",".","c","o","m",">">>,
    <<"M","A","I","L"," ","F","R","O","M",":","a","@","b","\n">>,
    <<"R","C","P","T"," ","T","O",":","<","c","@","1","d",">","\n">>,
    <<"R","C","P","T"," ","T","O",":","<","c","@","d",".","c","o","m",">"," ","x","\n">>,
    <<"R","C","P","T"," ","T","O",":","<","c","@","d",".",">","\n">>,
    <<"D","A","T","A"," ","x","\n">>,
    <<"D","A","T","A">>,
    <<"H","E","L","O","\n">>,
    <<"H","E","L","O"," ","1","x","\n">>,
    <<"H","E","L","O","x","\n">>,
    <<"H","E","L","O"," ","x",EACUTE,"\n">> }

\* Lines that start with a registered character and do not match its keyword.
BadKeywordLines ==
  { <<"M","A","I","D"," ","F","R","O","M",":","<","a","@","b",".","c","o","m",">","\n">>,
    <<"M","A","I","L","F","R","O","M",":","<","a","@","b",".","c","o","m",">","\n">>,
    <<"M","A","I","L"," ","T","O",":","<","a","@","b",".","c","o","m",">","\n">>,
    <<"M","\n">>,
    <<"R","C","P","T"," ","F","R","O","M",":","<","c","@","d",".","c","o","m",">","\n">>,
    <<"R","S","E","T","\n">>,
    <<"D","A","T","\n">>,
    <<"D">>,
    <<"H","E","L","P"," ","x",".","o","r","g","\n">>,
    <<"H","e","l","o"," ","x",".","o","r","g","\n">> }

\* Empty and whitespace-only lines, and lines whose first character is not registered.
UnregisteredLines ==
  { <<"\n">>,
    <<" ","\t","\n">>,
    <<"N","O","O","P","\n">>,
    <<" ","H","E","L","O"," ","x",".","o","r","g","\n">>,
    <<"m","a","i","l"," ","f","r","o","m",":","<","a","@","b",".","c","o","m",">","\n">>,
    <<"Q","U","I","T"," ","n","o","w","\n">>,
    <<EACUTE,"\n">> }

\* Lines of a message body.
BodyLines ==
  { <<"h","i","\n">>,
    <<" ",".","\n">>,
    <<"Q","U","I","T","\n">> }

\* The terminator line, with and without trailing whitespace or newline.
DotLines ==
  { <<".","\n">>,
    <<"."," ","\n">>,
    <<".">> }

CommandLines ==
  HeloLines \cup MailLines \cup RcptLines \cup DataLines \cup QuitLines
    \cup BadParamLines \cup BadKeywordLines \cup UnregisteredLines
    \cup BodyLines \cup DotLines

\* The lines sent during the data phase.
DataPhaseLines == BodyLines \cup DotLines

\* At most MaxLines lines are read in a session, at most MaxErrors of them
\* are rejected, at most MaxRcpts recipients and MaxBody body lines are sent
\* for a message.
MaxLines == 8

MaxErrors == 1

MaxRcpts == 2

MaxBody == 2

\* ------------------------------------------------------------------------
\* The client of sender.py: its functions
\* ------------------------------------------------------------------------

\* s[:n] and s[n:].
Take(s, n) == SubSeq(s, 1, IF Len(s) < n THEN Len(s) ELSE n)

Drop(s, n) == SubSeq(s, n + 1, Len(s))

\* str.isdigit and str.isascii of a string.
IsDigitStr(s) == s # <<>> /\ \A i \in DOMAIN s : isdigit(s[i])

IsAsciiStr(s) == \A i \in DOMAIN s : is_ascii(s[i])

DigitValue(c) ==
  CASE c = "0" -> 0 [] c = "1" -> 1 [] c = "2" -> 2 [] c = "3" -> 3
    [] c = "4" -> 4 [] c = "5" -> 5 [] c = "6" -> 6 [] c = "7" -> 7
    [] c = "8" -> 8 [] c = "9" -> 9 [] c = ARABIC_TWO -> 2

\* int(s) of a string of digits: it raises ValueError unless Converts(s).
Converts(s) == \A i \in DOMAIN s : s[i] # SUPER_TWO

RECURSIVE IntOf(_)
IntOf(s) ==
  IF s = <<>> THEN 0
  ELSE 10 * IntOf(SubSeq(s, 1, Len(s) - 1)) + DigitValue(s[Len(s)])

\* match_code after resp = resp.strip(): "True", "False", or "ValueError"
\* when int(code_str) raises.
MatchStripped(resp, code) ==
  IF ~IsDigitStr(Take(resp, 3)) THEN "False"
  ELSE IF resp = Take(resp, 3) THEN "False"
  ELSE IF resp[4] # " " /\ resp[4] # "\t" THEN "False"
  ELSE IF Len(Drop(resp, 4)) = 0 \/ ~IsAsciiStr(Drop(resp, 4)) THEN "False"
  ELSE IF ~Converts(Take(resp, 3)) THEN "ValueError"
  ELSE IF code = IntOf(Take(resp, 3)) THEN "True"
  ELSE "False"

match_code(resp, code) ==
  IF Len(resp) < 3 THEN "False" ELSE MatchStripped(strip(resp), code)

\* try_parse_mailbox(line): parse_mailbox on a fresh scanner over the line;
\* what follows the mailbox is not looked at.
try_parse_mailbox(line) == parse_mailbox(line, 1)

\* ------------------------------------------------------------------------
\* The session driver process_request
\* ------------------------------------------------------------------------

VARIABLES
  pc,            \* where the session is: the read it blocks on, or Terminated
  from_addr,     \* accept_mail_from's from_addr
  rcpts,         \* accept_rcpt_to's rcpts
  result,        \* parse_data_txt's result: the body lines read so far
  events,        \* every reply printed and every mailbox write, in order
  forward,       \* the files of forward/: the texts appended to each
  nread,         \* the number of lines read
  stream_ended,  \* the last line read had no newline: the stream is at its end
  last,          \* the step just taken: the state it started in, the line
                 \* it read and the events it added
  script,        \* an observer of the lines read: how far they follow the
                 \* plain one-message session
  cpc,           \* where the client is: the reply it blocks on, or exited
  my_domain,     \* the client's get_my_domain()
  next_mail,     \* the client's next_mail, as read_mail returned it
  addr_i,        \* handle_mail_to: how many of to_addrs have been sent
  sent,          \* every text the client printed to server_out, in order
  heard,         \* every reply line the client read from server_in, in order
  printed,       \* what the client printed to its standard output, in order
  call           \* a call of one function of the client on its own: its
                 \* arguments and, once it has returned, its result

serverVars ==
  <<pc, from_addr, rcpts, result, events, forward, nread, stream_ended, last, script>>

clientVars == <<cpc, my_domain, next_mail, addr_i, sent, heard, printed>>

vars == <<serverVars, clientVars, call>>

ReadingStates ==
  {"AwaitingGreeting", "AwaitingSender", "AwaitingRecipient",
   "AwaitingMoreRecipientsOrData"}

\* The local variable is not bound (yet, or any more).
None == MailBox(<<>>, <<>>)

\* print(msg, file=server_out): site names the print statement.
Reply(site, code) == [site |-> site, code |-> code, file |-> <<>>, text |-> <<>>]

\* file.write(mail_to_save) on forward/<file_name>.
Write(file_name, text) ==
  [site |-> "write", code |-> 0, file |-> file_name, text |-> text]

\* The record of a step: the values it started with, what it read (a line,
\* or the end of the stream) and the events it added.
Step(line, eof, emitted) ==
  [pc |-> pc, from_addr |-> from_addr, rcpts |-> rcpts, result |-> result,
   line |-> line, eof |-> eof, emitted |-> emitted]

RECURSIVE join(_)
join(lines) == IF lines = <<>> THEN <<>> ELSE Head(lines) \o join(Tail(lines))

Mail(src, targets, text) == [src |-> src, targets |-> targets, text |-> text]

RECURSIVE ToHeaders(_)
ToHeaders(targets) ==
  IF targets = <<>> THEN <<>>
  ELSE <<"T","o",":"," ","<">> \o MailBoxStr(Head(targets)) \o <<">","\n">>
         \o ToHeaders(Tail(targets))

mail_to_string(mail) ==
  <<"F","r","o","m",":"," ","<">> \o MailBoxStr(mail.src) \o <<">","\n">>
    \o ToHeaders(mail.targets) \o mail.text

\* file_names keyed by the whole address.
file_names_PerAddress(mail) ==
  {MailBoxStr(mail.targets[i]) : i \in 1..Len(mail.targets)}

\* set([box.domain for box in mail.targets])
file_names(mail) == {mail.targets[i].domain : i \in 1..Len(mail.targets)}

\* The orders in which the for loop may visit the set.
Orders(S) ==
  {o \in [1..Cardinality(S) -> S] : \A i, j \in 1..Cardinality(S) : i # j => o[i] # o[j]}

\* The writes of the delivery loop, visiting the files in order o.
Writes(o, text) == [i \in 1..Len(o) |-> Write(o[i], text)]

\* open(..., "a") and write: the files after the writes of one message.
Appended(files, names, text) ==
  [n \in DOMAIN files \cup names |->
     IF n \notin names THEN files[n]
     ELSE IF n \in DOMAIN files THEN Append(files[n], text)
     ELSE <<text>>]

\* Expected with DATA expected at the first read of accept_rcpt_to too.
Expected_DataAtFirstRcpt(state) ==
  CASE state = "AwaitingGreeting" -> {"parse_helo_cmd"}
    [] state = "AwaitingSender" -> {"parse_mail_from_cmd"}
    [] state = "AwaitingRecipient" -> {"parse_rcpt_to", "parse_data_cmd"}
    [] state = "AwaitingMoreRecipientsOrData" -> {"parse_rcpt_to", "parse_data_cmd"}

\* The routines try_parse is told to expect at each read.
Expected(state) ==
  CASE state = "AwaitingGreeting" -> {"parse_helo_cmd"}
    [] state = "AwaitingSender" -> {"parse_mail_from_cmd"}
    [] state = "AwaitingRecipient" -> {"parse_rcpt_to"}
    [] state = "AwaitingMoreRecipientsOrData" -> {"parse_rcpt_to", "parse_data_cmd"}

\* The position of the first c in line (0: none).
IndexOf(line, c) ==
  IF \E i \in DOMAIN line : line[i] = c
  THEN CHOOSE i \in DOMAIN line :
         line[i] = c /\ \A j \in 1..(i - 1) : line[j] # c
  ELSE 0

\* The lines of a text, as next() on a text stream yields them: each ends
\* with its newline, but for a last line that has none.
RECURSIVE SplitLines(_)
SplitLines(text) ==
  IF text = <<>> THEN <<>>
  ELSE IF IndexOf(text, "\n") = 0 THEN <<text>>
  ELSE <<Take(text, IndexOf(text, "\n"))>>
         \o SplitLines(Drop(text, IndexOf(text, "\n")))

\* "<%s>" % box
Bracketed(box) == <<"<">> \o MailBoxStr(box) \o <<">">>

\* read_mail's header list after "To: ": "<a>, <b>" without the last ", ".
RECURSIVE ToList(_)
ToList(to_headers) ==
  IF Len(to_headers) = 1 THEN Bracketed(to_headers[1])
  ELSE Bracketed(Head(to_headers)) \o <<","," ">> \o ToList(Tail(to_headers))

\* read_data: the subject line and the lines before the line ".\n", each
\* as next(file) returned it.
read_data(subject_line, body_lines) ==
  <<"S","u","b","j","e","c","t",":"," ">> \o subject_line \o <<"\n">> \o join(body_lines)

\* read_mail for a sender, recipients (at least one), subject and body.
read_mail(from_header, to_headers, subject_line, body_lines) ==
  Mail(from_header, to_headers,
       <<"F","r","o","m",":"," ">> \o Bracketed(from_header) \o <<"\n">>
         \o <<"T","o",":"," ">> \o ToList(to_headers) \o <<"\n">>
         \o read_data(subject_line, body_lines))

\* handle_data's prints with the newline before the terminator always.
DataPrints_AlwaysNewline(data) == <<data, <<"\n",".","\n">> >>

\* The two prints of handle_data after the 354: the data, without a newline
\* added, and the terminator.
DataPrints(data) ==
  IF Len(data) = 0 THEN <<data, <<".","\n">> >>
  ELSE IF data[Len(data)] = "\n" THEN <<data, <<".","\n">> >>
  ELSE <<data, <<"\n",".","\n">> >>

HeloCommand(domain) == <<"H","E","L","O"," ">> \o domain \o <<"\n">>

MailFromCommand(box) == <<"M","A","I","L"," ","F","R","O","M",":"," ">> \o Bracketed(box) \o <<"\n">>

RcptToCommand(box) == <<"R","C","P","T"," ","T","O",":"," ">> \o Bracketed(box) \o <<"\n">>

DataCommand == <<"D","A","T","A","\n">>

QuitCommand == <<"Q","U","I","T","\n">>

\* Everything process_mails prints to server_out when every reply matches.
ClientScript(domain, mail) ==
  <<HeloCommand(domain), MailFromCommand(mail.src)>>
    \o [i \in DOMAIN mail.targets |-> RcptToCommand(mail.targets[i])]
    \o <<DataCommand>> \o DataPrints(mail.text) \o <<QuitCommand>>

\* What the user of the client enters (the bounded input): a sender, one or
\* two recipients, a subject and at most MaxMessageLines body lines, none of
\* them ".\n".
MaxMessageLines == 2

Senders == {MailBox(<<"a">>, <<"b",".","c","o","m">>)}

RecipientLists ==
  { <<MailBox(<<"c">>, <<"d",".","c","o","m">>)>>,
    <<MailBox(<<"c">>, <<"d",".","c","o","m">>), MailBox(<<"e">>, <<"f",".","o","r","g">>)>> }

SubjectLines == { <<"s","\n">> }

MessageLines == { <<"h","i","\n">>, <<"."," ","\n">> }

Bodies == UNION {[1..n -> MessageLines] : n \in 0..MaxMessageLines}

Mails ==
  {read_mail(f, tos, s, b) :
     f \in Senders, tos \in RecipientLists, s \in SubjectLines, b \in Bodies}

\* What get_my_domain returns: a domain name the server parses, and a host
\* name with a hyphen, which it does not.
Domains == { <<"x",".","o","r","g">>, <<"m","y","-","h","o","s","t">> }

\* The lines the client can send.
ClientLines ==
  UNION {{SplitLines(join(ClientScript(d, m)))[i] :
            i \in DOMAIN SplitLines(join(ClientScript(d, m)))} :
           d \in Domains, m \in Mails}

\* try_parse of every line at every read, computed once.
TryParseTable ==
  [state \in ReadingStates |->
     [line \in CommandLines \cup ClientLines |-> try_parse(line, Expected(state))]]

\* IsQuit without the strip.
IsQuit_NoStrip(line) == line = <<"Q","U","I","T","\n">>

\* read_next_line's test for the termination keyword.
IsQuit(line) == strip(line) = <<"Q","U","I","T">>

\* parse_data_txt's test for the terminator.
IsTerminator(line) == rstrip(line) = <<".">>

\* The observer.  The plain session is: a well-formed HELO, a well-formed
\* MAIL FROM, n >= 1 well-formed RCPT TO, DATA, body lines none of which is
\* ".", a "." line, QUIT.
DotLine(line) == line = <<".","\n">> \/ line = <<".">>

QuitLine(line) == line = <<"Q","U","I","T","\n">> \/ line = <<"Q","U","I","T">>

Script(phase, n) == [phase |-> phase, n |-> n]

Observe(s, line) ==
  CASE s.phase = "helo" /\ line \in HeloLines -> Script("mail", 0)
    [] s.phase = "mail" /\ line \in MailLines -> Script("rcpt", 0)
    [] s.phase = "rcpt" /\ line \in RcptLines -> Script("rcpt_or_data", 1)
    [] s.phase = "rcpt_or_data" /\ line \in RcptLines -> Script("rcpt_or_data", s.n + 1)
    [] s.phase = "rcpt_or_data" /\ line \in DataLines -> Script("body", s.n)
    [] s.phase = "body" /\ ~DotLine(line) -> Script("body", s.n)
    [] s.phase = "body" /\ DotLine(line) -> Script("quit", s.n)
    [] s.phase = "quit" /\ QuitLine(line) -> Script("complete", s.n)
    [] OTHER -> Script("off", 0)

\* The number of lines rejected so far.
Rejected == Cardinality({i \in DOMAIN events : events[i].site = "except"})

\* next(server_in) returns line: the stream yields a further line.  The
\* server changes nothing of the client.
Reads(line) ==
  /\ ~stream_ended
  /\ nread' = nread + 1
  /\ stream_ended' = (line[Len(line)] # "\n")
  /\ script' = Observe(script, line)
  /\ UNCHANGED <<clientVars, call>>

Emit(line, emitted) ==
  /\ events' = events \o emitted
  /\ last' = Step(line, FALSE, emitted)

\* handle_quit and ClientQuit, which process_request catches to return.
ClientQuit(line) ==
  /\ Emit(line, <<Reply("handle_quit", QUIT)>>)
  /\ pc' = "Terminated"
  /\ UNCHANGED <<from_addr, rcpts, result, forward>>

\* HeloFailed with the session moving on to the sender all the same.
HeloFailed_Advances(line, e) ==
  /\ Rejected < MaxErrors
  /\ Emit(line, <<Reply("except", e)>>)
  /\ pc' = "AwaitingSender"
  /\ UNCHANGED <<from_addr, rcpts, result, forward>>

\* A ParseException caught by the first loop of process_request.
HeloFailed(line, e) ==
  /\ Rejected < MaxErrors
  /\ Emit(line, <<Reply("except", e)>>)
  /\ UNCHANGED <<pc, from_addr, rcpts, result, forward>>

\* MailFailed with the read repeated where it failed: the sender and the
\* recipients accepted so far are kept.
MailFailed_KeepsEnvelope(line, e) ==
  /\ Rejected < MaxErrors
  /\ Emit(line, <<Reply("except", e)>>)
  /\ UNCHANGED <<pc, from_addr, rcpts, result, forward>>

\* A ParseException caught by the second loop of process_request, which
\* calls accept_mail_from anew: its locals and those of accept_rcpt_to are
\* gone.
MailFailed(line, e) ==
  /\ Rejected < MaxErrors
  /\ Emit(line, <<Reply("except", e)>>)
  /\ pc' = "AwaitingSender"
  /\ from_addr' = None
  /\ rcpts' = <<>>
  /\ UNCHANGED <<result, forward>>

\* accept_rcpt_to after a try_parse that returned (f, rcpt_addr): the loop
\* goes on while f is parse_rcpt_to; when it is not, accept_rcpt_to returns
\* and accept_data_entry prints 354 and enters parse_data_txt.
RcptParsed(line, r) ==
  IF r.f = "parse_rcpt_to"
  THEN /\ Len(rcpts) < MaxRcpts
       /\ Emit(line, <<Reply("accept_rcpt_to", OK)>>)
       /\ pc' = "AwaitingMoreRecipientsOrData"
       /\ rcpts' = Append(rcpts, r.parsed)
       /\ UNCHANGED <<from_addr, result, forward>>
  ELSE /\ Emit(line, <<Reply("accept_data_entry", ENTER_DATA)>>)
       /\ pc' = "InData"
       /\ result' = <<>>
       /\ UNCHANGED <<from_addr, rcpts, forward>>

ServerInit ==
  /\ pc = "Start"
  /\ from_addr = None
  /\ rcpts = <<>>
  /\ result = <<>>
  /\ events = <<>>
  /\ forward = <<>>
  /\ nread = 0
  /\ stream_ended = FALSE
  /\ last = Step(<<>>, FALSE, <<>>)
  /\ script = Script("helo", 0)

\* No client of sender.py is modelled: the peer is any sender of lines.
NoClient ==
  /\ cpc = "none"
  /\ my_domain = <<>>
  /\ next_mail = Mail(None, <<>>, <<>>)
  /\ addr_i = 0
  /\ sent = <<>>
  /\ heard = <<>>
  /\ printed = <<>>

NoCall == [f |-> "none", arg |-> <<>>, done |-> FALSE, ret |-> <<>>]

Init == ServerInit /\ NoClient /\ call = NoCall

\* The peer of Spec sends at most MaxLines lines, and at most MaxBody body
\* lines for a message.
PeerSends(line) ==
  /\ nread < MaxLines
  /\ (pc = "InData" /\ ~IsTerminator(line)) => Len(result) < MaxBody

\* process_request prints the greeting.
Greet ==
  /\ pc = "Start"
  /\ pc' = "AwaitingGreeting"
  /\ Emit(<<>>, <<Reply("greeting", GREETING)>>)
  /\ UNCHANGED <<from_addr, rcpts, result, forward, nread, stream_ended, script>>
  /\ UNCHANGED <<clientVars, call>>

accept_helo(line) ==
  /\ pc = "AwaitingGreeting"
  /\ Reads(line)
  /\ IF IsQuit(line) THEN ClientQuit(line)
     ELSE LET r == TryParseTable[pc][line]
          IN  IF r.err # 0 THEN HeloFailed(line, r.err)
              ELSE /\ Emit(line, <<Reply("accept_helo", OK)>>)
                   /\ pc' = "AwaitingSender"
                   /\ UNCHANGED <<from_addr, rcpts, result, forward>>

accept_mail_from(line) ==
  /\ pc = "AwaitingSender"
  /\ Reads(line)
  /\ IF IsQuit(line) THEN ClientQuit(line)
     ELSE LET r == TryParseTable[pc][line]
          IN  IF r.err # 0 THEN MailFailed(line, r.err)
              ELSE /\ Emit(line, <<Reply("accept_mail_from", OK)>>)
                   /\ pc' = "AwaitingRecipient"
                   /\ from_addr' = r.parsed
                   /\ rcpts' = <<>>
                   /\ UNCHANGED <<result, forward>>

\* The first read of accept_rcpt_to, before its loop.
accept_rcpt_to_first(line) ==
  /\ pc = "AwaitingRecipient"
  /\ Reads(line)
  /\ IF IsQuit(line) THEN ClientQuit(line)
     ELSE LET r == TryParseTable[pc][line]
          IN  IF r.err # 0 THEN MailFailed(line, r.err)
              ELSE RcptParsed(line, r)

\* The read inside the loop of accept_rcpt_to.
accept_rcpt_to_loop(line) ==
  /\ pc = "AwaitingMoreRecipientsOrData"
  /\ Reads(line)
  /\ IF IsQuit(line) THEN ClientQuit(line)
     ELSE LET r == TryParseTable[pc][line]
          IN  IF r.err # 0 THEN MailFailed(line, r.err)
              ELSE RcptParsed(line, r)

\* The rest of the loop body of process_request once accept_mail_from has
\* printed the final 250 and returned the Mail: it is rendered and appended
\* to the file of each recipient domain, and accept_mail_from is called anew.
Deliver(line, mail) ==
  \E o \in Orders(file_names(mail)) :
    /\ Emit(line, <<Reply("final", OK)>> \o Writes(o, mail_to_string(mail)))
    /\ forward' = Appended(forward, file_names(mail), mail_to_string(mail))
    /\ pc' = "AwaitingSender"
    /\ from_addr' = None
    /\ rcpts' = <<>>
    /\ result' = <<>>

\* One line of parse_data_txt.
parse_data_txt(line) ==
  /\ pc = "InData"
  /\ Reads(line)
  /\ IF IsTerminator(line)
     THEN Deliver(line, Mail(from_addr, rcpts, join(result)))
     ELSE /\ result' = Append(result, line)
          /\ Emit(line, <<>>)
          /\ UNCHANGED <<pc, from_addr, rcpts, forward>>

\* next(server_in) raises StopIteration in read_next_line: exit(0).
read_next_line_eof ==
  /\ pc \in ReadingStates
  /\ pc' = "Terminated"
  /\ last' = Step(<<>>, TRUE, <<>>)
  /\ UNCHANGED <<from_addr, rcpts, result, events, forward, nread, stream_ended, script>>
  /\ UNCHANGED <<clientVars, call>>

\* The stream ends inside parse_data_txt, which returns None: the final 250
\* is printed, mail_to_string fails on the None text with a TypeError and
\* process_request ends without a write.
parse_data_txt_eof ==
  /\ pc = "InData"
  /\ pc' = "Terminated"
  /\ events' = events \o <<Reply("final", OK)>>
  /\ last' = Step(<<>>, TRUE, <<Reply("final", OK)>>)
  /\ UNCHANGED <<from_addr, rcpts, result, forward, nread, stream_ended, script>>
  /\ UNCHANGED <<clientVars, call>>

Next ==
  \/ Greet
  \/ \E line \in CommandLines : PeerSends(line) /\ accept_helo(line)
  \/ \E line \in CommandLines : PeerSends(line) /\ accept_mail_from(line)
  \/ \E line \in CommandLines : PeerSends(line) /\ accept_rcpt_to_first(line)
  \/ \E line \in CommandLines : PeerSends(line) /\ accept_rcpt_to_loop(line)
  \/ \E line \in DataPhaseLines : PeerSends(line) /\ parse_data_txt(line)
  \/ read_next_line_eof
  \/ parse_data_txt_eof

Spec == Init /\ [][Next]_vars

\* ------------------------------------------------------------------------
\* The client process_mails, from the connection on.  A step of the client
\* is one read of a reply, its validation, and what is printed until the
\* next read.
\* ------------------------------------------------------------------------

\* The states in which the client blocks in read_server_output.
ClientReads == {"greeting", "helo", "mail_from", "mail_to", "data", "final", "quit"}

\* The line the server prints at a print statement; helo_msg is the domain
\* accept_helo parsed.
ReplyLine(e, helo_msg) ==
  CASE e.site = "greeting" -> <<"2","2","0"," ","l","o","c","a","l","h","o","s","t","\n">>
    [] e.site = "accept_helo" -> <<"2","5","0"," ">> \o helo_msg \o <<" ","p","l","e","a","s","e","d"," ","t","o"," ","m","e","e","t"," ","y","o","u","\n">>
    [] e.site \in {"accept_mail_from", "accept_rcpt_to", "final"} -> <<"2","5","0"," ","O","K","\n">>
    [] e.site = "accept_data_entry" -> <<"3","5","4"," ","S","t","a","r","t"," ","m","a","i","l"," ","i","n","p","u","t",";"," ","e","n","d"," ","w","i","t","h"," ","<","C","R","L","F",">",".","<","C","R","L","F",">","\n">>
    [] e.site = "handle_quit" -> <<"2","2","1"," ","l","o","c","a","l","h","o","s","t"," ","c","l","o","s","i","n","g"," ","c","o","n","n","e","c","t","i","o","n","\n">>
    [] e.site = "except" /\ e.code = COMMAND_UNREC -> <<"5","0","0"," ","S","y","n","t","a","x"," ","e","r","r","o","r",":"," ","c","o","m","m","a","n","d"," ","u","n","r","e","c","o","g","n","i","z","e","d","\n">>
    [] e.site = "except" /\ e.code = PARAM_ERROR -> <<"5","0","1"," ","S","y","n","t","a","x"," ","e","r","r","o","r"," ","i","n"," ","p","a","r","a","m","e","t","e","r","s"," ","o","r"," ","a","r","g","u","m","e","n","t","s","\n">>
    [] e.site = "except" /\ e.code = OUT_OF_ORDER_ERROR -> <<"5","0","3"," ","B","a","d"," ","s","e","q","u","e","n","c","e"," ","o","f"," ","c","o","m","m","a","n","d","s","\n">>

\* The replies a server may send a client (the bounded input): those of
\* parse.py, a line that is only a code, and a line whose first character
\* is a digit that int does not convert.
ReplyLines ==
  { <<"2","2","0"," ","l","o","c","a","l","h","o","s","t","\n">>,
    <<"2","5","0"," ","O","K","\n">>,
    <<"3","5","4"," ","S","t","a","r","t"," ","m","a","i","l"," ","i","n","p","u","t",";"," ","e","n","d"," ","w","i","t","h"," ","<","C","R","L","F",">",".","<","C","R","L","F",">","\n">>,
    <<"2","2","1"," ","l","o","c","a","l","h","o","s","t"," ","c","l","o","s","i","n","g"," ","c","o","n","n","e","c","t","i","o","n","\n">>,
    <<"5","0","0"," ","S","y","n","t","a","x"," ","e","r","r","o","r",":"," ","c","o","m","m","a","n","d"," ","u","n","r","e","c","o","g","n","i","z","e","d","\n">>,
    <<"2","5","0","\n">>,
    <<SUPER_TWO,"5","0"," ","O","K","\n">> }

\* read_server_output returned resp; the client changes nothing of the
\* server.
Hears(resp) ==
  /\ heard' = Append(heard, resp)
  /\ UNCHANGED <<my_domain, next_mail, serverVars, call>>

\* The reply matched: the client prints texts to server_out and blocks in
\* the next read.
Proceeds(state, texts) ==
  /\ cpc' = state
  /\ sent' = sent \o texts
  /\ printed' = printed

\* Fails with the remaining commands sent all the same.
Fails_GoesOn(resp, code, message) ==
  /\ cpc' = "quit"
  /\ sent' = sent \o <<DataCommand, QuitCommand>>
  /\ printed' = Append(printed, message)
  /\ addr_i' = addr_i

\* The reply did not match: the handler prints its message and calls
\* exit_sequence, which prints QUIT and reads the reply to it.  When int
\* raises ValueError in match_code nothing is sent: the exception ends
\* process_mails and the main block prints it.
Fails(resp, code, message) ==
  /\ addr_i' = addr_i
  /\ IF match_code(resp, code) = "ValueError"
     THEN /\ cpc' = "exited"
          /\ sent' = sent
          /\ printed' = Append(printed, "ValueError")
     ELSE /\ cpc' = "quit"
          /\ sent' = Append(sent, QuitCommand)
          /\ printed' = Append(printed, message)

ClientInit ==
  /\ cpc = "greeting"
  /\ my_domain \in Domains
  /\ next_mail \in Mails
  /\ addr_i = 0
  /\ sent = <<>>
  /\ heard = <<>>
  /\ printed = <<>>

\* greeting_sequence reads the greeting and prints HELO.
greeting_sequence_greeting(resp) ==
  /\ cpc = "greeting"
  /\ Hears(resp)
  /\ IF match_code(resp, GREETING) = "True"
     THEN Proceeds("helo", <<HeloCommand(my_domain)>>) /\ addr_i' = addr_i
     ELSE Fails(resp, GREETING, "INVALID_SERVER_GREETING")

\* greeting_sequence reads the reply to HELO; handle_mail_from prints MAIL
\* FROM.
greeting_sequence_resp(resp) ==
  /\ cpc = "helo"
  /\ Hears(resp)
  /\ IF match_code(resp, OK) = "True"
     THEN Proceeds("mail_from", <<MailFromCommand(next_mail.src)>>) /\ addr_i' = addr_i
     ELSE Fails(resp, OK, "INVALID_SERVER_GREETING")

\* handle_mail_from reads the reply to MAIL FROM; handle_mail_to prints the
\* RCPT TO of the first address.
handle_mail_from(resp) ==
  /\ cpc = "mail_from"
  /\ Hears(resp)
  /\ IF match_code(resp, OK) = "True"
     THEN /\ Proceeds("mail_to", <<RcptToCommand(next_mail.targets[1])>>)
          /\ addr_i' = 1
     ELSE Fails(resp, OK, "FAILED_TO_ENTER_MAIL_FROM")

\* handle_mail_to reads the reply to a RCPT TO and prints the next one;
\* after the last, handle_data prints DATA.
handle_mail_to(resp) ==
  /\ cpc = "mail_to"
  /\ Hears(resp)
  /\ IF match_code(resp, OK) # "True" THEN Fails(resp, OK, "FAILED_TO_ENTER_RCPTS")
     ELSE IF addr_i < Len(next_mail.targets)
     THEN /\ Proceeds("mail_to", <<RcptToCommand(next_mail.targets[addr_i + 1])>>)
          /\ addr_i' = addr_i + 1
     ELSE Proceeds("data", <<DataCommand>>) /\ addr_i' = addr_i

\* handle_data reads the reply to DATA and prints the data and the
\* terminator.
handle_data_ready(resp) ==
  /\ cpc = "data"
  /\ Hears(resp)
  /\ IF match_code(resp, ENTER_DATA) = "True"
     THEN Proceeds("final", DataPrints(next_mail.text)) /\ addr_i' = addr_i
     ELSE Fails(resp, ENTER_DATA, "SERVER_NOT_READY_FOR_DATA")

\* handle_data reads the final reply; exit_sequence prints QUIT.
handle_data_final(resp) ==
  /\ cpc = "final"
  /\ Hears(resp)
  /\ IF match_code(resp, OK) = "True"
     THEN Proceeds("quit", <<QuitCommand>>) /\ addr_i' = addr_i
     ELSE Fails(resp, OK, "SERVER_REJECT_DATA")

\* exit_sequence reads the reply to QUIT and exits.
exit_sequence(resp) ==
  /\ cpc = "quit"
  /\ Hears(resp)
  /\ cpc' = "exited"
  /\ printed' =
       CASE match_code(resp, QUIT) = "True" -> printed
         [] match_code(resp, QUIT) = "False" -> Append(printed, "UNCLEAN_EXIT")
         [] match_code(resp, QUIT) = "ValueError" -> Append(printed, "ValueError")
  /\ UNCHANGED <<sent, addr_i>>

\* read_server_output: next(stream) raises, the connection is closed or
\* timed out.
read_server_output_closed ==
  /\ cpc \in ClientReads
  /\ cpc' = "exited"
  /\ printed' = Append(printed, "UNEXPECTED_CONNECTION_CLOSE")
  /\ UNCHANGED <<my_domain, next_mail, addr_i, sent, heard, serverVars, call>>

\* The client against any server: each reply is any of ReplyLines.
ClientNext ==
  \/ \E resp \in ReplyLines : greeting_sequence_greeting(resp)
  \/ \E resp \in ReplyLines : greeting_sequence_resp(resp)
  \/ \E resp \in ReplyLines : handle_mail_from(resp)
  \/ \E resp \in ReplyLines : handle_mail_to(resp)
  \/ \E resp \in ReplyLines : handle_data_ready(resp)
  \/ \E resp \in ReplyLines : handle_data_final(resp)
  \/ \E resp \in ReplyLines : exit_sequence(resp)
  \/ read_server_output_closed

\* A client connects to a server that has just accepted the connection.
SessionInit == ServerInit /\ ClientInit /\ call = NoCall

Client == SessionInit /\ [][ClientNext]_vars

\* ------------------------------------------------------------------------
\* The client and the server in one session: the server reads the lines of
\* what the client has printed, the client reads the replies the server has
\* printed.
\* ------------------------------------------------------------------------

\* The lines of server_in at the server.
ServerInput == SplitLines(join(sent))

\* The line the server's next read returns, once the client has sent it.
NextLine == IF nread < Len(ServerInput) THEN {ServerInput[nread + 1]} ELSE {}

\* The lines of server_in at the client.
ServerOutput ==
  [i \in DOMAIN SelectSeq(events, LAMBDA e : e.site # "write") |->
     ReplyLine(SelectSeq(events, LAMBDA e : e.site # "write")[i],
               TryParseTable["AwaitingGreeting"][ServerInput[1]].parsed)]

\* The reply the client's next read returns, once the server has sent it.
NextReply == IF Len(heard) < Len(ServerOutput) THEN {ServerOutput[Len(heard) + 1]} ELSE {}

\* The client ends every session with QUIT and reads until the reply to it,
\* and the server closes only after its 221: neither reads the end of the
\* stream.
SessionNext ==
  \/ Greet
  \/ \E line \in NextLine : accept_helo(line)
  \/ \E line \in NextLine : accept_mail_from(line)
  \/ \E line \in NextLine : accept_rcpt_to_first(line)
  \/ \E line \in NextLine : accept_rcpt_to_loop(line)
  \/ \E line \in NextLine : parse_data_txt(line)
  \/ \E resp \in NextReply : greeting_sequence_greeting(resp)
  \/ \E resp \in NextReply : greeting_sequence_resp(resp)
  \/ \E resp \in NextReply : handle_mail_from(resp)
  \/ \E resp \in NextReply : handle_mail_to(resp)
  \/ \E resp \in NextReply : handle_data_ready(resp)
  \/ \E resp \in NextReply : handle_data_final(resp)
  \/ \E resp \in NextReply : exit_sequence(resp)

Session == SessionInit /\ [][SessionNext]_vars

\* ------------------------------------------------------------------------
\* The functions of the client called on their own: match_code on a reply
\* and a code, try_parse_mailbox on a line followed by the rendering of the
\* mailbox and its parse, and the prints of handle_data on a text.
\* ------------------------------------------------------------------------

\* All strings of at most n characters of an alphabet.
Strings(alphabet, n) == UNION {[1..k -> alphabet] : k \in 0..n}

\* The replies match_code is called on: something before the code, a code,
\* a separator, a message of at most MaxMessage characters, a line end.
MaxMessage == 2

Leads == { <<>>, <<" ">>, <<"x">> }

CodeTexts ==
  { <<"2","5","0">>, <<"2","5">>, <<"2","5","0","5">>, <<"2","x","0">>,
    <<ARABIC_TWO,"5","0">>, <<SUPER_TWO,"5","0">> }

Separators == { <<>>, <<" ">>, <<"\t">>, <<"-">> }

MessageChars == {"O", " ", EACUTE}

LineEnds == { <<"\n">>, <<>>, <<"\r","\n">> }

Responses ==
  {lead \o code \o sep \o msg \o end :
     lead \in Leads, code \in CodeTexts, sep \in Separators,
     msg \in Strings(MessageChars, MaxMessage), end \in LineEnds}

Codes == {OK, GREETING}

\* The lines try_parse_mailbox is called on: at most MaxMailbox characters.
MaxMailbox == 7

MailboxChars == {"a", "1", "@", ".", "-"}

\* The texts handle_data is called on: at most MaxText characters.
MaxText == 3

TextChars == {"a", ".", "\n"}

Call(f, arg) == [f |-> f, arg |-> arg, done |-> FALSE, ret |-> <<>>]

Returns(ret) ==
  /\ ~call.done
  /\ call' = [call EXCEPT !.done = TRUE, !.ret = ret]
  /\ UNCHANGED <<serverVars, clientVars>>

CallsInit ==
  /\ ServerInit
  /\ NoClient
  /\ call \in {Call("match_code", <<resp, code>>) : resp \in Responses, code \in Codes}
            \cup {Call("try_parse_mailbox", line) : line \in Strings(MailboxChars, MaxMailbox)}
            \cup {Call("handle_data", data) : data \in Strings(TextChars, MaxText)}

Call_match_code ==
  /\ call.f = "match_code"
  /\ Returns(match_code(call.arg[1], call.arg[2]))

\* The mailbox of the line and, when there is one, the parse of str(box).
Reparsed(first) ==
  [first |-> first,
   again |-> IF first.err # 0 THEN first ELSE try_parse_mailbox(MailBoxStr(first.val))]

Call_try_parse_mailbox ==
  /\ call.f = "try_parse_mailbox"
  /\ Returns(Reparsed(try_parse_mailbox(call.arg)))

Call_handle_data ==
  /\ call.f = "handle_data"
  /\ Returns(DataPrints(call.arg))

CallsNext == Call_match_code \/ Call_try_parse_mailbox \/ Call_handle_data

Calls == CallsInit /\ [][CallsNext]_vars

\* ------------------------------------------------------------------------
\* The claims
\* ------------------------------------------------------------------------

ErrorCodes == {COMMAND_UNREC, PARAM_ERROR, OUT_OF_ORDER_ERROR}

\* The step just taken read a line in one of the states.
ReadIn(states) == last.pc \in states /\ ~last.eof /\ last.line # <<>>

\* The step just taken answered its line with exactly this error reply.
Answered(code) == last.emitted = <<Reply("except", code)>>

StartsWith(line, lit) ==
  Len(line) >= Len(lit) /\ SubSeq(line, 1, Len(lit)) = lit

\* first, one or more spaces or tabs, second.
StartsWithTwo(line, first, second) ==
  /\ StartsWith(line, first)
  /\ \E n \in 1..Len(line) :
       /\ Len(first) + n + Len(second) <= Len(line)
       /\ \A i \in 1..n : line[Len(first) + i] \in {" ", "\t"}
       /\ SubSeq(line, Len(first) + n + 1, Len(first) + n + Len(second)) = second

\* The command whose keyword (and separator) the line matches, or "".
CommandOf(line) ==
  CASE StartsWithTwo(line, <<"M","A","I","L">>, <<"F","R","O","M",":">>) -> "parse_mail_from_cmd"
    [] StartsWithTwo(line, <<"R","C","P","T">>, <<"T","O",":">>) -> "parse_rcpt_to"
    [] StartsWith(line, <<"D","A","T","A">>) -> "parse_data_cmd"
    [] StartsWith(line, <<"H","E","L","O">>) -> "parse_helo_cmd"
    [] OTHER -> ""

\* The commands of the dialog that are legal in a state.
LegalCommands(state) ==
  CASE state = "AwaitingGreeting" -> {"parse_helo_cmd"}
    [] state = "AwaitingSender" -> {"parse_mail_from_cmd"}
    [] state = "AwaitingRecipient" -> {"parse_rcpt_to"}
    [] state = "AwaitingMoreRecipientsOrData" -> {"parse_rcpt_to", "parse_data_cmd"}

RegisteredChars == {"M", "R", "D", "H"}

Blank(line) == \A i \in 1..Len(line) : line[i] \in {" ", "\t", "\n"}

\* C1: a line answered 500, 501 or 503 leaves the dialog state, the sender
\* and the recipients accepted so far as they were before the line.
C1_RejectedLineKeepsState ==
  (ReadIn(ReadingStates) /\ Len(last.emitted) = 1
     /\ last.emitted[1].code \in ErrorCodes)
  => (pc = last.pc /\ from_addr = last.from_addr /\ rcpts = last.rcpts)

\* C2: in every state a line whose keyword matches a command that is not
\* legal there is answered 503, whether or not its parameters are
\* well-formed; so is a RCPT TO line read before any MAIL FROM.
C2_IllegalCommandIs503 ==
  (ReadIn(ReadingStates) /\ CommandOf(last.line) # ""
     /\ CommandOf(last.line) \notin LegalCommands(last.pc))
  => Answered(OUT_OF_ORDER_ERROR)

\* A well-formed RCPT TO as the very first line of the session got 503.
C2_Witness ==
  /\ ReadIn({"AwaitingGreeting"})
  /\ nread = 1
  /\ last.line \in RcptLines
  /\ Answered(OUT_OF_ORDER_ERROR)

\* C3: in every state a line that starts with a registered character and
\* does not match that command's keyword is answered 500, also when the
\* routine it is dispatched to is not legal in the state.
C3_BadKeywordIs500 ==
  (ReadIn(ReadingStates) /\ last.line[1] \in RegisteredChars
     /\ CommandOf(last.line) = "")
  => Answered(COMMAND_UNREC)

\* "MAID FROM:..." got 500 where MAIL FROM is not legal.
C3_Witness ==
  /\ ReadIn({"AwaitingGreeting", "AwaitingRecipient"})
  /\ StartsWith(last.line, <<"M","A","I","D">>)
  /\ "parse_mail_from_cmd" \notin LegalCommands(last.pc)
  /\ Answered(COMMAND_UNREC)

\* C4: for every state and every line that is empty, whitespace-only or
\* starts with a character that is not registered, the parser reports 500:
\* try_parse raises it for every such line, and every such line that
\* reaches the parser (QUIT is taken before it) is answered 500.
C4_UnregisteredIs500 ==
  /\ \A state \in ReadingStates : \A line \in CommandLines :
       (Blank(line) \/ line[1] \notin RegisteredChars)
       => TryParseTable[state][line].err = COMMAND_UNREC
  /\ (ReadIn(ReadingStates) /\ last.line \notin QuitLines
        /\ (Blank(last.line) \/ last.line[1] \notin RegisteredChars))
     => Answered(COMMAND_UNREC)

\* A whitespace-only line was answered 500 after a recipient was accepted.
C4_Witness ==
  /\ ReadIn({"AwaitingMoreRecipientsOrData"})
  /\ Blank(last.line)
  /\ Answered(COMMAND_UNREC)

\* C5: a DATA command read while no recipient is accepted for the envelope
\* is answered 503; 354 is emitted only for a DATA read when a sender and at
\* least one recipient are accepted for the envelope.
C5_DataNeedsRecipient ==
  /\ (ReadIn(ReadingStates) /\ last.line \in DataLines /\ last.rcpts = <<>>)
     => Answered(OUT_OF_ORDER_ERROR)
  /\ (\E i \in DOMAIN last.emitted : last.emitted[i].code = ENTER_DATA)
     => /\ last.line \in DataLines
        /\ last.from_addr # None
        /\ Len(last.rcpts) >= 1
  /\ pc = "InData" => (from_addr # None /\ Len(rcpts) >= 1)

\* DATA right after an accepted MAIL FROM got 503.
C5_Witness ==
  /\ ReadIn({"AwaitingRecipient"})
  /\ last.line \in DataLines
  /\ last.from_addr # None
  /\ Answered(OUT_OF_ORDER_ERROR)

\* C6 as stated: from every state, the data phase included, a QUIT line is
\* answered 221 and ends the session.
C6_QuitFromEveryState ==
  (ReadIn(ReadingStates \cup {"InData"}) /\ last.line \in QuitLines)
  => (last.emitted = <<Reply("handle_quit", QUIT)>> /\ pc = "Terminated")

\* C6 amended: from each of the four states in which a command line is
\* read, a QUIT line is answered 221 before any grammar dispatch and ends
\* the session, and no reply follows the 221; in the data phase a QUIT line
\* is a body line: it is appended to the body and gets no reply.
C6_QuitFromReadingStates ==
  /\ (ReadIn(ReadingStates) /\ last.line \in QuitLines)
     => (last.emitted = <<Reply("handle_quit", QUIT)>> /\ pc = "Terminated")
  /\ (ReadIn({"InData"}) /\ last.line \in QuitLines)
     => (last.emitted = <<>> /\ pc = "InData"
           /\ result = Append(last.result, last.line))
  /\ \A i \in DOMAIN events :
       events[i].code = QUIT => (i = Len(events) /\ pc = "Terminated")

\* " QUIT " between two recipients ended the session with 221.
C6_Witness ==
  /\ ReadIn({"AwaitingMoreRecipientsOrData"})
  /\ last.line = <<" ","Q","U","I","T"," ","\n">>
  /\ events[Len(events)].code = QUIT
  /\ pc = "Terminated"

\* C7: the data phase ends at a line that is exactly "." and at no other
\* line, the session is then in AwaitingSender, and every other line is
\* appended verbatim to the body.
C7_DataEndsOnlyAtDot ==
  ReadIn({"InData"})
  => /\ (pc # "InData") <=> DotLine(last.line)
     /\ DotLine(last.line) => pc = "AwaitingSender"
     /\ ~DotLine(last.line) => result = Append(last.result, last.line)

\* C8: the writes of a completed message to the sink come before the final
\* 250 of its data phase.
C8_SinkBeforeFinalAck ==
  (ReadIn({"InData"}) /\ pc = "AwaitingSender")
  => /\ \E i \in DOMAIN last.emitted : last.emitted[i].site = "write"
     /\ \A i, j \in DOMAIN last.emitted :
          (last.emitted[i].site = "write" /\ last.emitted[j].site = "final")
          => i < j

IsReply(e) == e.site # "write"

\* The codes of the replies printed so far.
ReplyCodes == [i \in DOMAIN SelectSeq(events, IsReply) |-> SelectSeq(events, IsReply)[i].code]

\* The replies of the plain session up to where the observer is.
PlainReplies(s) ==
  <<GREETING>>
    \o (IF s.phase = "helo" THEN <<>> ELSE <<OK>>)
    \o (IF s.phase \in {"helo", "mail"} THEN <<>> ELSE <<OK>>)
    \o [i \in 1..s.n |-> OK]
    \o (IF s.phase \in {"body", "quit", "complete"} THEN <<ENTER_DATA>> ELSE <<>>)
    \o (IF s.phase \in {"quit", "complete"} THEN <<OK>> ELSE <<>>)
    \o (IF s.phase = "complete" THEN <<QUIT>> ELSE <<>>)

\* C9: as long as the lines read follow the plain session (HELO, MAIL FROM,
\* n >= 1 RCPT TO, DATA, body lines none of which is ".", a "." line, QUIT)
\* and the stream has not ended, the replies are 220, 250, 250, 250 n times, 354, 250, 221 in that order,
\* with no reply for a body line.
C9_PlainSessionReplies ==
  (pc # "Start" /\ ~last.eof /\ script.phase # "off")
  => ReplyCodes = PlainReplies(script)

HeaderLine(name, box) ==
  name \o <<":"," ","<">> \o box.user \o <<"@">> \o box.domain \o <<">","\n">>

RECURSIVE Concat(_)
Concat(seqs) ==
  IF seqs = <<>> THEN <<>>
  ELSE Concat(SubSeq(seqs, 1, Len(seqs) - 1)) \o seqs[Len(seqs)]

\* The text of a message: the From line, a To line per recipient in
\* acceptance order, the body lines.
Rendered(src, targets, lines) ==
  HeaderLine(<<"F","r","o","m">>, src)
    \o Concat([i \in DOMAIN targets |-> HeaderLine(<<"T","o">>, targets[i])])
    \o Concat(lines)

IsWrite(e) == e.site = "write"

\* C10: for a completed message the sink gets the rendered text exactly
\* once for each distinct recipient domain and for no other destination.
C10_OneWritePerDomain ==
  /\ (ReadIn({"InData"}) /\ pc = "AwaitingSender")
     => LET W == SelectSeq(last.emitted, IsWrite)
            D == {last.rcpts[i].domain : i \in DOMAIN last.rcpts}
            text == Rendered(last.from_addr, last.rcpts, last.result)
        IN  /\ Len(W) = Cardinality(D)
            /\ {W[i].file : i \in DOMAIN W} = D
            /\ \A i \in DOMAIN W : W[i].text = text
            /\ \A d \in D :
                 d \in DOMAIN forward /\ forward[d][Len(forward[d])] = text
  /\ \A d \in DOMAIN forward :
       Len(forward[d]) =
         Cardinality({i \in DOMAIN events : IsWrite(events[i]) /\ events[i].file = d})
  /\ \A i \in DOMAIN events : IsWrite(events[i]) => events[i].file \in DOMAIN forward

\* A message to two recipients of one domain was written once.
C10_Witness ==
  /\ ReadIn({"InData"})
  /\ pc = "AwaitingSender"
  /\ Len(last.rcpts) = 2
  /\ last.rcpts[1].domain = last.rcpts[2].domain
  /\ last.rcpts[1].user # last.rcpts[2].user
  /\ last.result # <<>>
  /\ Len(SelectSeq(last.emitted, IsWrite)) = 1

\* The HELO lines acknowledged so far.
HeloAcks == {i \in DOMAIN events : events[i].site = "accept_helo"}

\* The step just taken acknowledged its line with 250 or 354.
AckedPositively ==
  \E i \in DOMAIN last.emitted :
    IsReply(last.emitted[i]) /\ last.emitted[i].code \in {OK, ENTER_DATA}

\* C11: in every session at most one HELO is acknowledged with 250, and
\* exactly one once the session is past AwaitingGreeting.  Until then the
\* session stays in AwaitingGreeting: a line that fails there is answered
\* with its error code, and no reply but the greeting, error replies and
\* the 221 has been sent.  After it the session is never in
\* AwaitingGreeting again and a HELO line is not acknowledged with 250.
C11_ExactlyOneHelo ==
  /\ Cardinality(HeloAcks) <= 1
  /\ HeloAcks = {}
     => /\ pc \in {"Start", "AwaitingGreeting", "Terminated"}
        /\ \A i \in DOMAIN events :
             events[i].site \in {"greeting", "except", "handle_quit"}
  /\ (ReadIn({"AwaitingGreeting"}) /\ ~IsQuit(last.line)
        /\ TryParseTable["AwaitingGreeting"][last.line].err # 0)
     => /\ Answered(TryParseTable["AwaitingGreeting"][last.line].err)
        /\ pc = "AwaitingGreeting"
  /\ HeloAcks # {}
     => /\ pc \notin {"Start", "AwaitingGreeting"}
        /\ \A i \in DOMAIN events : i > 1 => events[i].site # "greeting"
  /\ (ReadIn(ReadingStates) /\ CommandOf(last.line) = "parse_helo_cmd"
        /\ AckedPositively)
     => (last.pc = "AwaitingGreeting" /\ Cardinality(HeloAcks) = 1)
  /\ (ReadIn(ReadingStates) /\ last.pc # "AwaitingGreeting")
     => (HeloAcks # {} /\ \A i \in DOMAIN last.emitted :
                            last.emitted[i].site # "accept_helo")

\* A HELO attempt failed, the next one succeeded, and a sender was then
\* accepted: one HELO acknowledgement stands.
C11_Witness ==
  /\ Rejected = 1
  /\ Len(events) >= 3
  /\ events[2].site = "except"
  /\ events[3].site = "accept_helo"
  /\ ReadIn({"AwaitingSender"})
  /\ pc = "AwaitingRecipient"
  /\ Cardinality(HeloAcks) = 1

\* C12: a line whose keyword and separator match a command that is legal in
\* the state it is read in is answered 501 when its parameters are malformed
\* (a space inside the path, no angle brackets, a malformed domain, text
\* after the parameters, no terminating newline), never 500 or 503; every
\* other such line is acknowledged positively.
C12_BadParametersAre501 ==
  (ReadIn(ReadingStates) /\ CommandOf(last.line) \in LegalCommands(last.pc))
  => /\ last.line \in BadParamLines => Answered(PARAM_ERROR)
     /\ last.line \notin BadParamLines => AckedPositively
     /\ \A i \in DOMAIN last.emitted :
          last.emitted[i].code \notin {COMMAND_UNREC, OUT_OF_ORDER_ERROR}

\* "MAIL FROM:<a b@c>" was answered 501 where MAIL FROM is legal.
C12_Witness ==
  /\ ReadIn({"AwaitingSender"})
  /\ last.line = <<"M","A","I","L"," ","F","R","O","M",":","<","a"," ","b","@","c",">","\n">>
  /\ Answered(PARAM_ERROR)

\* The replies the step just taken printed.
LastReplies == SelectSeq(last.emitted, IsReply)

\* C20: after the greeting, each line read outside the data phase gets
\* exactly one reply (250, 354, 221, 500, 501 or 503), each body line of the
\* data phase gets none, and the terminator line "." gets exactly one, 250;
\* no line gets two.
C20_OneReplyPerLine ==
  /\ (pc # "Start") => (events # <<>> /\ events[1] = Reply("greeting", GREETING))
  /\ ReadIn(ReadingStates)
     => /\ Len(LastReplies) = 1
        /\ LastReplies[1].code \in {OK, ENTER_DATA, QUIT} \cup ErrorCodes
  /\ (ReadIn({"InData"}) /\ ~DotLine(last.line)) => LastReplies = <<>>
  /\ (ReadIn({"InData"}) /\ DotLine(last.line))
     => (Len(LastReplies) = 1 /\ LastReplies[1].code = OK)

\* The address a MAIL FROM or RCPT TO line names: the text between "<" and
\* ">", split at "@".
AddressOf(line) ==
  MailBox(SubSeq(line, IndexOf(line, "<") + 1, IndexOf(line, "@") - 1),
          SubSeq(line, IndexOf(line, "@") + 1, IndexOf(line, ">") - 1))

\* The step just taken read a line of this command and acknowledged it.
Accepted(command) ==
  ReadIn(ReadingStates) /\ CommandOf(last.line) = command /\ AckedPositively

\* The step just taken completed a message.
Completed == ReadIn({"InData"}) /\ pc = "AwaitingSender"

ReplyShape(resp, code) ==
  /\ Len(resp) >= 6
  /\ \A i \in 1..3 : resp[i] \in Digits
  /\ resp[4] \in {" ", "\t"}
  /\ resp[Len(resp)] = "\n"
  /\ \A i \in 5..(Len(resp) - 1) : is_ascii(resp[i]) /\ resp[i] # "\n"
  /\ IntOf(Take(resp, 3)) = code

\* C15: match_code(resp, code) returns true exactly when resp is three
\* ASCII digits, one space or tab, a non-empty ASCII message and a newline,
\* and the digits are code; every other line is rejected.
C15_MatchCodeExactShape ==
  (call.f = "match_code" /\ call.done)
  => call.ret = IF ReplyShape(call.arg[1], call.arg[2]) THEN "True" ELSE "False"

\* The parts of s between the occurrences of c.
RECURSIVE SplitAt(_, _)
SplitAt(s, c) ==
  IF IndexOf(s, c) = 0 THEN <<s>>
  ELSE <<Take(s, IndexOf(s, c) - 1)>> \o SplitAt(Drop(s, IndexOf(s, c)), c)

\* A letter followed by letters and digits.
IsElement(e) ==
  /\ e # <<>>
  /\ e[1] \in AsciiLetters
  /\ \A i \in 2..Len(e) : e[i] \in AsciiLetters \cup Digits

\* C17: for every line the mailbox rule accepts, the rendering local-part
\* "@" domain of the result is the text the rule consumed, parsing the
\* rendering yields a mailbox with equal local-part and equal domain, and
\* the domain is one or more elements separated by dots, each a letter
\* followed by letters and digits.
C17_MailboxRoundTrip ==
  (call.f = "try_parse_mailbox" /\ call.done /\ call.ret.first.err = 0)
  => /\ call.ret.again.err = 0
     /\ call.ret.again.val.user = call.ret.first.val.user
     /\ call.ret.again.val.domain = call.ret.first.val.domain
     /\ MailBoxStr(call.ret.first.val) = Take(call.arg, call.ret.first.pos - 1)
     /\ MailBoxStr(call.ret.again.val) = MailBoxStr(call.ret.first.val)
     /\ \A i \in DOMAIN SplitAt(call.ret.first.val.domain, ".") :
          IsElement(SplitAt(call.ret.first.val.domain, ".")[i])

\* "1@a.a.a" was parsed: its domain has three elements and the rendering
\* parses to the same mailbox.
C17_Witness ==
  /\ call.f = "try_parse_mailbox"
  /\ call.done
  /\ call.arg = <<"1","@","a",".","a",".","a">>
  /\ call.ret.first.err = 0
  /\ call.ret.first.val.domain = <<"a",".","a",".","a">>
  /\ Len(SplitAt(call.ret.first.val.domain, ".")) = 3
  /\ call.ret.again.val = call.ret.first.val

\* C18: what handle_data transmits after the 354 is the body as it is,
\* then the terminator line ".": directly after a body that is empty or
\* ends in a newline, and after exactly one inserted newline otherwise.  The
\* terminator is a line of its own and the last line transmitted.
C18_TerminatorOwnLine ==
  (call.f = "handle_data" /\ call.done)
  => LET lines == SplitLines(join(call.ret))
         before == join(SubSeq(lines, 1, Len(lines) - 1))
     IN  /\ call.ret[1] = call.arg
         /\ lines[Len(lines)] = <<".","\n">>
         /\ (call.arg = <<>> \/ call.arg[Len(call.arg)] = "\n") => before = call.arg
         /\ (call.arg # <<>> /\ call.arg[Len(call.arg)] # "\n")
            => before = call.arg \o <<"\n">>

\* A body that does not end in a newline was transmitted with one newline
\* inserted before the terminator.
C18_Witness ==
  /\ call.f = "handle_data"
  /\ call.done
  /\ call.arg = <<"a","\n","a">>
  /\ join(call.ret) = <<"a","\n","a","\n",".","\n">>

\* The number of recipients of the client's mail.
NTargets == Len(next_mail.targets)

\* The code the client expects in its i-th reply when every reply before
\* it matched: the greeting, the replies to HELO, MAIL FROM and each RCPT
\* TO, the 354, the final reply, the reply to QUIT.
ExpectedCode(i) ==
  IF i = 1 THEN GREETING
  ELSE IF i <= 3 + NTargets THEN OK
  ELSE IF i = 4 + NTargets THEN ENTER_DATA
  ELSE IF i = 5 + NTargets THEN OK
  ELSE QUIT

\* The i-th reply read is valid for its step.
Valid(i) == match_code(heard[i], ExpectedCode(i)) = "True"

\* The replies before the reply to QUIT of the complete sequence that do
\* not match: the first of them is the first mismatch.
Mismatches == {i \in DOMAIN heard : i <= 5 + NTargets /\ ~Valid(i)}

FirstMismatch == CHOOSE k \in Mismatches : \A i \in Mismatches : k <= i

\* The prints of the complete sequence in order: HELO, MAIL FROM, a RCPT TO
\* per recipient, DATA, the body, the terminator, QUIT.
FullScript == ClientScript(my_domain, next_mail)

\* How many replies are read before the i-th print of the sequence: the
\* body and the terminator both follow the 354.
ReadBefore(i) == IF i <= 4 + NTargets THEN i ELSE i - 1

\* What the sequence sends once its first j replies have matched.
SentAfter(j) == Take(FullScript, IF j <= 3 + NTargets THEN j ELSE j + 1)

\* C13: after the first reply that does not match the code expected at its
\* step, the client sends none of the remaining commands: it sends QUIT,
\* once, reads one more reply and exits, and it reports an unclean exit
\* exactly when that reply is not a valid 221.
C13_MismatchThenQuitOnly ==
  (cpc # "none" /\ Mismatches # {})
  => /\ sent = SentAfter(FirstMismatch - 1) \o <<QuitCommand>>
     /\ Len(heard) <= FirstMismatch + 1
     /\ Len(heard) = FirstMismatch
        => \/ cpc = "quit"
           \/ cpc = "exited" /\ printed[Len(printed)] = "UNEXPECTED_CONNECTION_CLOSE"
     /\ Len(heard) = FirstMismatch + 1
        => /\ cpc = "exited"
           /\ (printed[Len(printed)] = "UNCLEAN_EXIT")
                <=> (match_code(heard[Len(heard)], QUIT) # "True")

\* C14: what the client has sent is always a beginning of HELO, MAIL FROM,
\* one RCPT TO per recipient in list order, DATA, the body, the terminator,
\* QUIT, possibly cut short by a QUIT; each print came after the reply to
\* the one before it was read (the greeting before HELO, the 354 before the
\* body), and each but a QUIT after that reply was found valid.
C14_LockStep ==
  cpc # "none"
  => /\ \E n \in 0..Len(FullScript) :
          sent = Take(FullScript, n) \/ sent = Take(FullScript, n) \o <<QuitCommand>>
     /\ \A i \in DOMAIN sent :
          /\ ReadBefore(i) <= Len(heard)
          /\ \A j \in 1..(ReadBefore(i) - 1) : Valid(j)
          /\ sent[i] # QuitCommand => Valid(ReadBefore(i))
     /\ (cpc \in ClientReads /\ Mismatches = {}) => sent = SentAfter(Len(heard))

\* The client of a mail to two recipients has sent the whole sequence and
\* waits for the reply to QUIT, having read seven valid replies.
C14_Witness ==
  /\ cpc = "quit"
  /\ NTargets = 2
  /\ Len(heard) = 7
  /\ Mismatches = {}
  /\ sent = FullScript

\* The server acknowledged HELO, MAIL FROM, every RCPT TO and DATA.
EveryCommandAccepted ==
  /\ Len(heard) >= 4 + NTargets
  /\ \A i \in 1..(4 + NTargets) : Valid(i)

\* C19: in a session of this client with this server in which the server
\* accepts every command, when the client has exited the server has stored,
\* for each recipient domain once, the message whose body is the text the
\* client transmitted before its terminator; the server has read the
\* client's QUIT as a command and answered it 221; and the client has
\* reported nothing.
C19_SessionDelivers ==
  (cpc = "exited" /\ EveryCommandAccepted)
  => /\ DOMAIN forward = file_names(next_mail)
     /\ \A d \in DOMAIN forward :
          forward[d]
            = <<Rendered(next_mail.src, next_mail.targets, <<next_mail.text>>)>>
     /\ pc = "Terminated"
     /\ last.line = QuitCommand
     /\ last.emitted = <<Reply("handle_quit", QUIT)>>
     /\ heard[Len(heard)] = ReplyLine(Reply("handle_quit", QUIT), <<>>)
     /\ printed = <<>>

\* The step just taken found the stream at its end inside the data phase.
EndedInData == last.eof /\ last.pc = "InData"

\* C21: when the stream ends inside the data phase, before a terminator
\* line, the server prints no final 250 for the message and writes nothing
\* to the sink, and the session ends.
C21_EofInDataNoAck ==
  EndedInData
  => /\ last.emitted = <<>>
     /\ pc = "Terminated"

====
